---- MODULE Spec2Model ----
(***************************************************************************)
(* Academic Stress EWS: the feature schema, the encoding and validation of *)
(* the form's inputs, and the predict / clear handlers of the desktop app  *)
(* (src/src/desktop/app.py), with the start-up of the Streamlit app        *)
(* (src/src/streamlit/app.py).                                             *)
(*                                                                         *)
(* Python values are records tagged by their type (field t).  A str whose  *)
(* characters the code inspects (the text of a Spinbox, handed to float()) *)
(* is a tuple of one-character strings; a str the code only compares (a    *)
(* feature name, a Combobox selection, a dict key) is a TLA+ string.  The  *)
(* en dash of the source's labels and keys is written "-" here.            *)
(***************************************************************************)
EXTENDS Integers, Sequences, FiniteSets, TLC

VARIABLES
    app,            \* which program runs: "desktop", "streamlit", "encode", "field"
    pc,             \* position of the module-level code / the event loop
    sidecar,        \* the feature_names.json file as found on disk
    FEATURE_ORDER,  \* the module global of that name
    widget_vars,    \* feature -> [t, var, extra]; var is the index of a StringVar
    string_vars,    \* the tk.StringVar objects, one per control: their texts
    error_labels,   \* feature -> text of its red error label
    pred_var,       \* StringVar of the "Class:" output
    prob_var,       \* StringVar of the "Probability:" output
    shown,          \* messagebox / st.error / st.warning shown by the last step
    calls,          \* calls made on MODEL by the last step, in order
    result,         \* what the last gather_and_map_inputs returned
    form_frame,     \* the controls packed into the form, in order: their features
    inputs          \* Streamlit: the dict of the form's encoded values

vars == <<app, pc, sidecar, FEATURE_ORDER, widget_vars, string_vars, error_labels,
          pred_var, prob_var, shown, calls, result, form_frame, inputs>>

\* What no handler of the desktop form changes.
built == <<app, pc, sidecar, FEATURE_ORDER, widget_vars, form_frame, inputs>>

----------------------------------------------------------------------------
(* Python values *)

None == [t |-> "None"]

PyStr(s) == [t |-> "str", s |-> s]

\* An int is sign and magnitude, the magnitude in two limbs of 27 bits
\* (hi * 2^27 + lo), so that values around 2^53 keep their exact width.
Base == 2^27

PyInt(n) == [t |-> "int", neg |-> n < 0, hi |-> 0, lo |-> IF n < 0 THEN -n ELSE n]

PyList(items) == [t |-> "list", items |-> items]

\* A dict is its (key, value) pairs in insertion order.
Dict(pairs) == [t |-> "dict", items |-> pairs]

Keys(d) == [i \in 1..Len(d.items) |-> d.items[i][1]]

Range(s) == {s[i] : i \in DOMAIN s}

\* dict.get(key): the value stored under key, or None.
Get(d, key) ==
    IF \E i \in DOMAIN d.items : d.items[i][1] = key
    THEN d.items[CHOOSE i \in DOMAIN d.items : d.items[i][1] = key][2]
    ELSE None

\* hash(v) raises TypeError for a list and for a dict.
Hashable(v) == v.t \notin {"list", "dict"}

----------------------------------------------------------------------------
(* The schema constants *)

RequiredNames ==
    << "school", "sex", "age", "address", "famsize", "Pstatus", "Medu", "Fedu",
       "Mjob", "Fjob", "reason", "guardian", "traveltime", "studytime", "failures",
       "schoolsup", "famsup", "paid", "activities", "nursery", "higher", "internet",
       "romantic", "famrel", "freetime", "goout", "Dalc", "Walc", "health", "absences",
       "G1", "G2" >>

REQUIRED_FEATURES == [i \in DOMAIN RequiredNames |-> PyStr(RequiredNames[i])]

\* (feature, label, options): options is None for a numeric feature.
FIELD_INFO == <<
    <<"school", "School", Dict(<<<<"GP", PyStr("GP")>>, <<"MS", PyStr("MS")>>>>)>>,
    <<"sex", "Sex", Dict(<<<<"F", PyStr("F")>>, <<"M", PyStr("M")>>>>)>>,
    <<"age", "Age", None>>,
    <<"address", "Address", Dict(<<<<"U (urban)", PyStr("U")>>, <<"R (rural)", PyStr("R")>>>>)>>,
    <<"famsize", "Family Size", Dict(<<<<"GT3 (>=3)", PyStr("GT3")>>, <<"LE3 (<3)", PyStr("LE3")>>>>)>>,
    <<"Pstatus", "Parent Cohabitation", Dict(<<<<"T (together)", PyStr("T")>>, <<"A (apart)", PyStr("A")>>>>)>>,
    <<"Medu", "Mother's Education", Dict(<<<<"0 - None", PyInt(0)>>, <<"1 - Primary", PyInt(1)>>, <<"2 - 5th-9th", PyInt(2)>>, <<"3 - Secondary", PyInt(3)>>, <<"4 - Higher", PyInt(4)>>>>)>>,
    <<"Fedu", "Father's Education", Dict(<<<<"0 - None", PyInt(0)>>, <<"1 - Primary", PyInt(1)>>, <<"2 - 5th-9th", PyInt(2)>>, <<"3 - Secondary", PyInt(3)>>, <<"4 - Higher", PyInt(4)>>>>)>>,
    <<"Mjob", "Mother's Job", Dict(<<<<"teacher", PyStr("teacher")>>, <<"health", PyStr("health")>>, <<"services", PyStr("services")>>, <<"at_home", PyStr("at_home")>>, <<"other", PyStr("other")>>>>)>>,
    <<"Fjob", "Father's Job", Dict(<<<<"teacher", PyStr("teacher")>>, <<"health", PyStr("health")>>, <<"services", PyStr("services")>>, <<"at_home", PyStr("at_home")>>, <<"other", PyStr("other")>>>>)>>,
    <<"reason", "Reason for School Choice", Dict(<<<<"home", PyStr("home")>>, <<"reputation", PyStr("reputation")>>, <<"course", PyStr("course")>>, <<"other", PyStr("other")>>>>)>>,
    <<"guardian", "Guardian", Dict(<<<<"mother", PyStr("mother")>>, <<"father", PyStr("father")>>, <<"other", PyStr("other")>>>>)>>,
    <<"traveltime", "Travel Time", Dict(<<<<"1 - <15 min", PyInt(1)>>, <<"2 - 15-30 min", PyInt(2)>>, <<"3 - 30-60 min", PyInt(3)>>, <<"4 - >60 min", PyInt(4)>>>>)>>,
    <<"studytime", "Weekly Study Time", Dict(<<<<"1 - <2 hrs", PyInt(1)>>, <<"2 - 2-5 hrs", PyInt(2)>>, <<"3 - 5-10 hrs", PyInt(3)>>, <<"4 - >10 hrs", PyInt(4)>>>>)>>,
    <<"failures", "Past Failures", Dict(<<<<"0", PyInt(0)>>, <<"1", PyInt(1)>>, <<"2", PyInt(2)>>, <<"3", PyInt(3)>>>>)>>,
    <<"schoolsup", "School Support", Dict(<<<<"yes", PyInt(1)>>, <<"no", PyInt(0)>>>>)>>,
    <<"famsup", "Family Support", Dict(<<<<"yes", PyInt(1)>>, <<"no", PyInt(0)>>>>)>>,
    <<"paid", "Paid Classes", Dict(<<<<"yes", PyInt(1)>>, <<"no", PyInt(0)>>>>)>>,
    <<"activities", "Activities", Dict(<<<<"yes", PyInt(1)>>, <<"no", PyInt(0)>>>>)>>,
    <<"nursery", "Nursery", Dict(<<<<"yes", PyInt(1)>>, <<"no", PyInt(0)>>>>)>>,
    <<"higher", "Wants Higher Edu", Dict(<<<<"yes", PyInt(1)>>, <<"no", PyInt(0)>>>>)>>,
    <<"internet", "Internet", Dict(<<<<"yes", PyInt(1)>>, <<"no", PyInt(0)>>>>)>>,
    <<"romantic", "Romantic", Dict(<<<<"yes", PyInt(1)>>, <<"no", PyInt(0)>>>>)>>,
    <<"famrel", "Family Relationship", Dict(<<<<"1", PyInt(1)>>, <<"2", PyInt(2)>>, <<"3", PyInt(3)>>, <<"4", PyInt(4)>>, <<"5", PyInt(5)>>>>)>>,
    <<"freetime", "Free Time", Dict(<<<<"1", PyInt(1)>>, <<"2", PyInt(2)>>, <<"3", PyInt(3)>>, <<"4", PyInt(4)>>, <<"5", PyInt(5)>>>>)>>,
    <<"goout", "Going Out", Dict(<<<<"1", PyInt(1)>>, <<"2", PyInt(2)>>, <<"3", PyInt(3)>>, <<"4", PyInt(4)>>, <<"5", PyInt(5)>>>>)>>,
    <<"Dalc", "Workday Alcohol", Dict(<<<<"1", PyInt(1)>>, <<"2", PyInt(2)>>, <<"3", PyInt(3)>>, <<"4", PyInt(4)>>, <<"5", PyInt(5)>>>>)>>,
    <<"Walc", "Weekend Alcohol", Dict(<<<<"1", PyInt(1)>>, <<"2", PyInt(2)>>, <<"3", PyInt(3)>>, <<"4", PyInt(4)>>, <<"5", PyInt(5)>>>>)>>,
    <<"health", "Health", Dict(<<<<"1", PyInt(1)>>, <<"2", PyInt(2)>>, <<"3", PyInt(3)>>, <<"4", PyInt(4)>>, <<"5", PyInt(5)>>>>)>>,
    <<"absences", "Absences", None>>,
    <<"G1", "G1 (0-20)", None>>,
    <<"G2", "G2 (0-20)", None>>
>>

\* FIELD_INFO_MAP.get(feat, (feat, None)): <<label, opts>>.  The lookup hashes
\* feat, so it is defined for hashable features only.
FIELD_INFO_MAP_get(feat) ==
    IF \E i \in DOMAIN FIELD_INFO : PyStr(FIELD_INFO[i][1]) = feat
    THEN LET i == CHOOSE j \in DOMAIN FIELD_INFO : PyStr(FIELD_INFO[j][1]) = feat
         IN  <<PyStr(FIELD_INFO[i][2]), FIELD_INFO[i][3]>>
    ELSE <<feat, None>>

----------------------------------------------------------------------------
(* safe_cast_int: int(float(x)) of a text, any exception giving None *)

Digits == <<"0", "1", "2", "3", "4", "5", "6", "7", "8", "9">>

IsDigit(c) == \E i \in DOMAIN Digits : Digits[i] = c

DigitValue(c) == (CHOOSE i \in DOMAIN Digits : Digits[i] = c) - 1

AllDigits(s) == \A i \in DOMAIN s : IsDigit(s[i])

\* The magnitude written by a digit string, as limbs <<hi, lo>> (at most 17 digits).
RECURSIVE DecimalValue(_)
DecimalValue(ds) ==
    IF ds = <<>> THEN <<0, 0>>
    ELSE LET n == DecimalValue(SubSeq(ds, 1, Len(ds) - 1))
             t == n[2] * 10 + DigitValue(ds[Len(ds)])
         IN  <<n[1] * 10 + t \div Base, t % Base>>

\* str.strip() of the blanks around a text, as float() and int() do first.
RECURSIVE Strip(_)
Strip(s) ==
    IF s = <<>> THEN s
    ELSE IF Head(s) = " " THEN Strip(Tail(s))
    ELSE IF s[Len(s)] = " " THEN Strip(SubSeq(s, 1, Len(s) - 1))
    ELSE s

HasSign(s) == s # <<>> /\ Head(s) \in {"+", "-"}

Unsigned(s) == IF HasSign(s) THEN Tail(s) ELSE s

\* Index of the first "." of s, or 0.
DotAt(s) == IF \E i \in DOMAIN s : s[i] = "."
            THEN CHOOSE i \in DOMAIN s : s[i] = "." /\ \A j \in 1..(i - 1) : s[j] # "."
            ELSE 0

IntPart(s) == IF DotAt(s) = 0 THEN s ELSE SubSeq(s, 1, DotAt(s) - 1)

FracPart(s) == IF DotAt(s) = 0 THEN <<>> ELSE SubSeq(s, DotAt(s) + 1, Len(s))

\* A decimal literal without exponent: digits, at most one point, a digit somewhere.
IsDecimal(s) == /\ AllDigits(IntPart(s))
                /\ AllDigits(FracPart(s))
                /\ Len(IntPart(s)) + Len(FracPart(s)) > 0

\* The number of low bits a magnitude loses in a double (53-bit significand):
\* the least e with hi < 2^(26 + e).
RECURSIVE ExcessBits(_, _)
ExcessBits(hi, e) == IF hi < 2^(26 + e) THEN e ELSE ExcessBits(hi, e + 1)

\* Round a magnitude to the nearest double, ties to even.
RoundToDouble(n) ==
    LET e    == ExcessBits(n[1], 0)
        unit == 2^e
        q    == n[2] \div unit
        r    == n[2] % unit
        up   == e > 0 /\ (2 * r > unit \/ (2 * r = unit /\ q % 2 = 1))
        lo   == (IF up THEN q + 1 ELSE q) * unit
    IN  IF lo = Base THEN <<n[1] + 1, 0>> ELSE <<n[1], lo>>

\* float(x) of a text x.  "ValueError" when x is no float literal; otherwise the
\* double, of which the model keeps the sign and the integer part (the fraction
\* of a literal of at most 15 significant digits never carries into it).  The
\* texts considered hold no exponent marker and no underscore.
float(x) ==
    LET s == Strip(x)
        u == Unsigned(s)
        neg == HasSign(s) /\ Head(s) = "-"
    IN  IF u \in {<<"i","n","f">>, <<"i","n","f","i","n","i","t","y">>}
          THEN [kind |-> "inf", neg |-> neg, int |-> <<0, 0>>]
        ELSE IF u = <<"n","a","n">>
          THEN [kind |-> "nan", neg |-> neg, int |-> <<0, 0>>]
        ELSE IF IsDecimal(u)
          THEN [kind |-> "finite", neg |-> neg,
                int |-> RoundToDouble(DecimalValue(IntPart(u)))]
        ELSE [kind |-> "ValueError", neg |-> FALSE, int |-> <<0, 0>>]

\* int(d) of a double d truncates toward zero; it raises OverflowError for an
\* infinity and ValueError for a nan.
int_of_float(d) ==
    IF d.kind = "finite"
    THEN [t |-> "int", neg |-> d.neg /\ d.int # <<0, 0>>, hi |-> d.int[1], lo |-> d.int[2]]
    ELSE [t |-> "raise"]

safe_cast_int(x) ==
    LET d == float(x)
    IN  IF d.kind = "ValueError" THEN None          \* float raised: except -> None
        ELSE IF int_of_float(d).t = "raise" THEN None   \* int raised: except -> None
        ELSE int_of_float(d)

\* str(n) of a natural number, as clear_form and add_spinbox write a bound.
RECURSIVE str(_)
str(n) == IF n < 10 THEN <<Digits[n + 1]>>
          ELSE Append(str(n \div 10), Digits[(n % 10) + 1])

----------------------------------------------------------------------------
(* The feature-order sidecar file and the module-level start-up code *)

Absent == [state |-> "absent", value |-> None]

\* open() or json.load() raises: unreadable, or not valid JSON.
Unreadable == [state |-> "unreadable", value |-> None]

Json(v) == [state |-> "json", value |-> v]

\* Whether "x in v" and "for x in v" are defined (they raise TypeError otherwise).
Iterable(v) == v.t \in {"list", "dict"}

\* What "for x in v" yields: the items of a list, the keys of a dict.
Iter(v) == IF v.t = "dict" THEN [i \in DOMAIN v.items |-> PyStr(v.items[i][1])]
           ELSE v.items

\* f in v, for an iterable v.
In(f, v) == \E i \in DOMAIN Iter(v) : Iter(v)[i] = f

\* all(f in order for f in REQUIRED_FEATURES); TypeError when order is no container.
AllRequiredIn(order) ==
    IF ~Iterable(order) THEN "TypeError"
    ELSE IF \A i \in DOMAIN REQUIRED_FEATURES : In(REQUIRED_FEATURES[i], order) THEN "True"
    ELSE "False"

\* Lines 30-39: the value FEATURE_ORDER is left bound to.
LoadedFeatureOrder(file) ==
    IF file.state = "absent" THEN PyList(REQUIRED_FEATURES)
    ELSE IF file.state = "unreadable" THEN PyList(REQUIRED_FEATURES)
    ELSE IF AllRequiredIn(file.value) = "True" THEN file.value
    ELSE PyList(REQUIRED_FEATURES)      \* "False", or the TypeError caught by except

\* add_dropdown / add_spinbox as the loop of lines 152-164 calls them: the entry
\* of widget_vars for a feature whose StringVar is the one of control number i.
Widget(feat, i) ==
    LET opts == FIELD_INFO_MAP_get(feat)[2]
    IN  IF opts = None
        THEN IF feat = PyStr("age") THEN [t |-> "spin", var |-> i, extra |-> <<10, 30>>]
             ELSE IF feat = PyStr("absences") THEN [t |-> "spin", var |-> i, extra |-> <<0, 93>>]
             ELSE IF feat \in {PyStr("G1"), PyStr("G2")} THEN [t |-> "spin", var |-> i, extra |-> <<0, 20>>]
             ELSE [t |-> "spin", var |-> i, extra |-> <<0, 100>>]
        ELSE [t |-> "dropdown", var |-> i, extra |-> opts]

\* The text a control starts with, and clear_form resets it to: the first key of
\* a dropdown (combo.set), str(minval) of a spinbox (var.set).
DefaultText(w) == IF w.t = "dropdown" THEN Keys(w.extra)[1] ELSE str(w.extra[1])

\* The controls the loop creates before it ends or raises: FIELD_INFO_MAP.get
\* hashes feat, and raises TypeError at the first unhashable one.
Created(order) ==
    LET items == Iter(order)
        bad   == {i \in DOMAIN items : ~Hashable(items[i])}
    IN  IF bad = {} THEN items
        ELSE SubSeq(items, 1, (CHOOSE i \in bad : \A j \in bad : i <= j) - 1)

BuildRaises(order) == \E i \in DOMAIN Iter(order) : ~Hashable(Iter(order)[i])

\* widget_vars after the loop: a later control of the same feature replaces the
\* entry of an earlier one.
LastIndex(items, f) == CHOOSE i \in DOMAIN items : items[i] = f /\ \A j \in DOMAIN items : items[j] = f => j <= i

BuiltWidgets(items) == [f \in Range(items) |-> Widget(f, LastIndex(items, f))]

BuiltStrings(items) == [i \in DOMAIN items |-> DefaultText(Widget(items[i], i))]

BuiltLabels(items) == [f \in Range(items) |-> ""]

----------------------------------------------------------------------------
(* gather_and_map_inputs *)

EmptyDict == [x \in {} |-> None]

\* A variant that tests the mapped value for truth ("if not mapped_val")
\* where line 197 tests "is None": it rejects the choices encoded as 0.
DropdownFieldTruthy(extra, val) ==
    IF Get(extra, val) = None \/ Get(extra, val) = [t |-> "int", neg |-> FALSE, hi |-> 0, lo |-> 0]
    THEN <<"Choose a valid option", None>>
    ELSE <<"", Get(extra, val)>>

\* Lines 195-200: <<error message or "", mapped value>> of a dropdown's text.
DropdownField(extra, val) ==
    IF Get(extra, val) = None THEN <<"Choose a valid option", None>>
    ELSE <<"", Get(extra, val)>>

\* Lines 203-208: the same of a spinbox's text.
SpinField(val) ==
    IF safe_cast_int(val) = None THEN <<"Enter a number", None>>
    ELSE <<"", safe_cast_int(val)>>

\* Lines 193-208: one iteration of the loop, on the feature's entry of
\* widget_vars and the text of its StringVar.
FieldResult(feat, wv, sv) ==
    IF wv[feat].t = "dropdown" THEN DropdownField(wv[feat].extra, sv[wv[feat].var])
    ELSE SpinField(sv[wv[feat].var])

\* A variant that stops at the first failing field: the loop of a validator
\* that returns early.  C3 tells it from lines 193-208.
GatherFirstError(items, wv, sv) ==
    [f \in {g \in Range(items) :
              /\ FieldResult(g, wv, sv)[1] # ""
              /\ \A h \in Range(items) :
                    FieldResult(h, wv, sv)[1] # "" =>
                       \E i \in DOMAIN items :
                          items[i] = g /\ \A j \in DOMAIN items : items[j] = h => i <= j}
       |-> FieldResult(f, wv, sv)[1]]

\* The dict errors when the loop of line 192 ends: an iteration writes
\* errors[feat] or mapped[feat], and what it writes depends on feat alone.
GatherErrors(items, wv, sv) ==
    [f \in {g \in Range(items) : FieldResult(g, wv, sv)[1] # ""} |-> FieldResult(f, wv, sv)[1]]

\* The dict mapped when the loop ends.
GatherMapped(items, wv, sv) ==
    [f \in {g \in Range(items) : FieldResult(g, wv, sv)[1] = ""} |-> FieldResult(f, wv, sv)[2]]

\* A variant of lines 210-213 that emits the vector in the order the fields were
\* read back from the dict of a reversed loop.
GatherReturnReversed(items, errors, mapped) ==
    IF DOMAIN errors # {}
    THEN <<FALSE, errors>>
    ELSE <<TRUE, [i \in DOMAIN items |-> mapped[items[Len(items) + 1 - i]]]>>

\* A variant of lines 210-213 without the test of errors: the vector of the
\* fields that did encode, whatever failed.
GatherReturnPartial(items, errors, mapped) ==
    <<TRUE, [i \in DOMAIN SelectSeq(items, LAMBDA f : f \in DOMAIN mapped) |->
                mapped[SelectSeq(items, LAMBDA f : f \in DOMAIN mapped)[i]]]>>

\* Lines 210-213 on the two dicts: <<FALSE, errors>> or <<TRUE, vector>>.
GatherReturn(items, errors, mapped) ==
    IF DOMAIN errors # {}
    THEN <<FALSE, errors>>
    ELSE <<TRUE, [i \in DOMAIN items |-> mapped[items[i]]]>>

gather_and_map_inputs(order, wv, sv) ==
    GatherReturn(Iter(order), GatherErrors(Iter(order), wv, sv), GatherMapped(Iter(order), wv, sv))

NoResult == <<FALSE, EmptyDict>>

----------------------------------------------------------------------------
(* Bounds on the inputs *)

\* At most this many controls hold a text other than their default at once.
MaxEdited == 2

\* The features whose controls the user edits; the others keep their defaults.
EditedFeatures ==
    {PyStr("school"), PyStr("Medu"), PyStr("failures"), PyStr("schoolsup"),
     PyStr("age"), PyStr("G2"), PyStr("G3")}

EditedControls == {i \in DOMAIN form_frame : form_frame[i] \in EditedFeatures}

\* The controls whose text differs from the default (a control of a feature
\* named twice has the kind and the default of the feature's entry).  Only the
\* controls the user edits can differ.
Edited(sv) == {i \in EditedControls : sv[i] # DefaultText(widget_vars[form_frame[i]])}

\* Texts typed into a Spinbox.
TypedTexts == { <<>>, <<"a", "b", "c">>, <<"1", "2", ".", "0">>, <<"1", "5", "0">> }

\* Texts a Combobox's StringVar is set to besides its own entries: no text, an
\* entry in other letter case, an entry of other features.
OtherTexts == {"", "YES", "no", "2", "GP"}

\* Every display string of the catalog.
AllKeys == UNION {Range(Keys(FIELD_INFO[i][3])) : i \in {j \in DOMAIN FIELD_INFO : FIELD_INFO[j][3] # None}}

\* Texts a Spinbox's StringVar is set to: every text of at most MaxLen
\* characters of Alphabet, and the samples.
MaxLen == 2

Alphabet == {"0", "1", ".", "-", " ", "a"}

ShortTexts == UNION {[1..n -> Alphabet] : n \in 0..MaxLen}

Samples ==
    { <<"1", "7">>, <<"1", "2", ".", "0">>, <<"1", "5", "0">>, <<"a", "b", "c">>,
      <<"-", "5">>, <<"+", "5">>, <<"1", "2", ".", "7">>, <<" ", "2", "0", " ">>,
      <<"i", "n", "f">>, <<"-", "i", "n", "f">>, <<"n", "a", "n">>,
      <<"1", "0", "0", "0", "0", "0", "0">>,
      <<"9","0","0","7","1","9","9","2","5","4","7","4","0","9","9","1">>,
      <<"9","0","0","7","1","9","9","2","5","4","7","4","0","9","9","2">>,
      <<"9","0","0","7","1","9","9","2","5","4","7","4","0","9","9","3">>,
      <<"-","9","0","0","7","1","9","9","2","5","4","7","4","0","9","9","5">> }

NumericTexts == ShortTexts \cup Samples

\* Entries picked in a Combobox.
DropdownPicks(i) == IF widget_vars[form_frame[i]].t = "dropdown"
                    THEN Range(Keys(widget_vars[form_frame[i]].extra))
                    ELSE {}

----------------------------------------------------------------------------
(* The desktop application's handlers *)

\* f"{prob:.4f}" of a probability given in units of 10^-5.
FixedPoint4(p) ==
    LET r == (p + 5) \div 10
    IN  str(r \div 10000) \o <<".">> \o
        <<Digits[((r \div 1000) % 10) + 1], Digits[((r \div 100) % 10) + 1],
          Digits[((r \div 10) % 10) + 1], Digits[(r % 10) + 1]>>

\* What MODEL.predict_proba(X)[:, 1][0] may do: raise (or be missing), or give
\* a probability; what MODEL.predict(X)[0] may do: raise, or give a label.
Raises == [raised |-> TRUE, value |-> 0]

Returns(v) == [raised |-> FALSE, value |-> v]

ProbaOutcomes == {Raises, Returns(73106)}

PredictOutcomes == {Raises, Returns(0), Returns(1)}

\* A variant without the inner try of lines 231-234: a failure of predict_proba
\* reaches the outer except as one of predict does.
PredictionFailsEither(proba, pred) == proba.raised \/ pred.raised

\* Lines 231-236 (desktop) and 177-181 (Streamlit): an exception of
\* predict_proba is caught by the inner except and leaves prob = None; only an
\* exception of predict reaches the outer except.
PredictionFails(proba, pred) == pred.raised

\* Lines 217-223: every error label is emptied, then the labels of the
\* features of errors get their messages (errors is empty when ok).
LabelsAfterPredict(labels, ok, payload) ==
    [f \in DOMAIN labels |-> IF ~ok /\ f \in DOMAIN payload THEN payload[f] ELSE ""]

\* pd.DataFrame([payload], columns=FEATURE_ORDER): one row under the column names.
DataFrame(payload, order) == [columns |-> Iter(order), row |-> payload]

\* Lines 216-242; result is the pair (ok, payload) of line 220, and the model's
\* two answers are drawn where the calls are made.
predict_action ==
    /\ app = "desktop" /\ pc = "mainloop"
    /\ result' = gather_and_map_inputs(FEATURE_ORDER, widget_vars, string_vars)
    /\ error_labels' = LabelsAfterPredict(error_labels, result'[1], result'[2])
    /\ IF ~result'[1]
       THEN /\ shown' = <<"Input Error">>
            /\ calls' = <<>>
            /\ UNCHANGED <<pred_var, prob_var>>
       ELSE \E proba \in ProbaOutcomes, pred \in PredictOutcomes :
                 /\ calls' = << [op |-> "predict_proba", out |-> proba,
                                 X |-> DataFrame(result'[2], FEATURE_ORDER)],
                                [op |-> "predict", out |-> pred,
                                 X |-> DataFrame(result'[2], FEATURE_ORDER)] >>
                 /\ IF PredictionFails(proba, pred)
                    THEN /\ shown' = <<"Prediction error">>
                         /\ UNCHANGED <<pred_var, prob_var>>
                    ELSE /\ shown' = <<>>
                         /\ pred_var' = IF pred.value = 1 THEN "1 (High stress)"
                                        ELSE "0 (Low stress)"
                         /\ prob_var' = IF proba.raised THEN <<"N", "/", "A">>
                                        ELSE FixedPoint4(proba.value)
    /\ UNCHANGED <<built, string_vars>>

\* Lines 247-253.
clear_form ==
    /\ app = "desktop" /\ pc = "mainloop"
    /\ string_vars' = [i \in DOMAIN string_vars |->
                         IF \E f \in DOMAIN widget_vars : widget_vars[f].var = i
                         THEN DefaultText(widget_vars[form_frame[i]])
                         ELSE string_vars[i]]
    /\ error_labels' = [f \in DOMAIN error_labels |-> ""]
    /\ shown' = <<>> /\ calls' = <<>> /\ result' = NoResult
    /\ UNCHANGED <<built, pred_var, prob_var>>


\* The user picks an entry of a readonly Combobox (control number i).
EditDropdown(i, key) ==
    /\ app = "desktop" /\ pc = "mainloop"
    /\ widget_vars[form_frame[i]].t = "dropdown"
    /\ key \in Range(Keys(widget_vars[form_frame[i]].extra))
    /\ string_vars' = [string_vars EXCEPT ![i] = key]
    /\ Cardinality(Edited(string_vars')) <= MaxEdited
    /\ shown' = <<>> /\ calls' = <<>> /\ result' = NoResult
    /\ UNCHANGED <<built, error_labels, pred_var, prob_var>>

\* The user types into a Spinbox (control number i): any text.
EditSpin(i, text) ==
    /\ app = "desktop" /\ pc = "mainloop"
    /\ widget_vars[form_frame[i]].t = "spin"
    /\ string_vars' = [string_vars EXCEPT ![i] = text]
    /\ Cardinality(Edited(string_vars')) <= MaxEdited
    /\ shown' = <<>> /\ calls' = <<>> /\ result' = NoResult
    /\ UNCHANGED <<built, error_labels, pred_var, prob_var>>

\* Lines 30-39 of the module-level code.
LoadFeatureOrder ==
    /\ app = "desktop" /\ pc = "load"
    /\ FEATURE_ORDER' = LoadedFeatureOrder(sidecar)
    /\ pc' = "build"
    /\ UNCHANGED <<app, sidecar, widget_vars, string_vars, error_labels, pred_var,
                   prob_var, shown, calls, result, form_frame, inputs>>

\* Lines 84-181 and 245-257: the window, the form (the loop of lines 152-164),
\* the output panel, the buttons, root.mainloop().  An exception of the loop is
\* not caught: the process ends with a traceback.
BuildForm ==
    /\ app = "desktop" /\ pc = "build"
    /\ form_frame' = Created(FEATURE_ORDER)
    /\ widget_vars' = BuiltWidgets(form_frame')
    /\ string_vars' = BuiltStrings(form_frame')
    /\ error_labels' = BuiltLabels(form_frame')
    /\ pc' = IF BuildRaises(FEATURE_ORDER) THEN "crashed" ELSE "mainloop"
    /\ UNCHANGED <<app, sidecar, FEATURE_ORDER, pred_var, prob_var, shown, calls,
                   result, inputs>>

\* The desktop process as python starts it on a given sidecar file (the model
\* file loads: a failure of joblib.load ends the process before line 30).
DesktopStart(file) ==
    /\ app = "desktop" /\ pc = "load"
    /\ sidecar = file
    /\ FEATURE_ORDER = None
    /\ form_frame = <<>> /\ widget_vars = EmptyDict /\ string_vars = <<>>
    /\ error_labels = EmptyDict /\ inputs = EmptyDict
    /\ pred_var = "-" /\ prob_var = <<"-">>
    /\ shown = <<>> /\ calls = <<>> /\ result = NoResult

\* The state once the module-level code has run to root.mainloop().
Built(file) ==
    /\ ~BuildRaises(LoadedFeatureOrder(file))
    /\ pc = "mainloop"
    /\ sidecar = file
    /\ FEATURE_ORDER = LoadedFeatureOrder(file)
    /\ form_frame = Created(FEATURE_ORDER)
    /\ widget_vars = BuiltWidgets(form_frame)
    /\ string_vars = BuiltStrings(form_frame)
    /\ error_labels = BuiltLabels(form_frame)
    /\ inputs = EmptyDict
    /\ pred_var = "-" /\ prob_var = <<"-">>
    /\ shown = <<>> /\ calls = <<>> /\ result = NoResult

----------------------------------------------------------------------------
(* gather_and_map_inputs on its own, the StringVars holding any text *)

\* A StringVar is set to a text, whatever its control would let a user enter.
SetRaw(i, text) ==
    /\ app = "encode" /\ pc = "mainloop"
    /\ string_vars' = [string_vars EXCEPT ![i] = text]
    /\ Cardinality(Edited(string_vars')) <= MaxEdited
    /\ result' = NoResult
    /\ UNCHANGED <<built, error_labels, pred_var, prob_var, shown, calls>>

\* The function is called (line 220) and its pair kept.
Gather ==
    /\ app \in {"encode", "field"} /\ pc = "mainloop"
    /\ result' = gather_and_map_inputs(FEATURE_ORDER, widget_vars, string_vars)
    /\ pc' = "returned"
    /\ UNCHANGED <<app, sidecar, FEATURE_ORDER, widget_vars, form_frame, inputs,
                   string_vars, error_labels, pred_var, prob_var, shown, calls>>

\* The pair is dropped; the form is as it was.
Return ==
    /\ app = "encode" /\ pc = "returned"
    /\ result' = NoResult
    /\ pc' = "mainloop"
    /\ UNCHANGED <<app, sidecar, FEATURE_ORDER, widget_vars, form_frame, inputs,
                   string_vars, error_labels, pred_var, prob_var, shown, calls>>

----------------------------------------------------------------------------
(* The Streamlit application: one run of its script *)

\* f"{prob:.3f}" of a probability given in units of 10^-5.
FixedPoint3(p) ==
    str(((p + 50) \div 100) \div 1000) \o <<".">> \o
    <<Digits[((((p + 50) \div 100) \div 100) % 10) + 1],
      Digits[((((p + 50) \div 100) \div 10) % 10) + 1],
      Digits[(((p + 50) \div 100) % 10) + 1]>>

\* Lines 126-151: the value the form puts into inputs[feat] while the user has
\* not touched the control: value= of a number_input, the first option's
\* encoded value of a selectbox.  The option maps are those of the desktop's
\* FIELD_INFO (lines 80-113 hold the same maps under other labels).
StInput(feat) ==
    IF FIELD_INFO_MAP_get(feat)[2] = None
    THEN IF feat = PyStr("age") THEN PyInt(17)
         ELSE IF feat = PyStr("absences") THEN PyInt(0)
         ELSE IF feat \in {PyStr("G1"), PyStr("G2")} THEN PyInt(10)
         ELSE PyInt(0)
    ELSE FIELD_INFO_MAP_get(feat)[2].items[1][2]

StInCatalog(feat) == \E i \in DOMAIN FIELD_INFO : PyStr(FIELD_INFO[i][1]) = feat

\* Lines 158-164: the features of REQUIRED that inputs lacks, one message each.
validate_inputs(inp) ==
    SelectSeq(REQUIRED_FEATURES, LAMBDA f : f \notin DOMAIN inp)

LoadFailed == "Failed to load model/features"

OrderWarning == "Loaded feature order does not exactly match expected required features"

MappingWarning == "Missing UI mapping for feature"

\* Lines 24-33 and 58-62: load_artifacts under the try of line 58.
StLoadRaises(file) == file.state # "json"

\* The messages of lines 71-72 and 126-127 of a run that reaches the form.
StWarnings(order) ==
    (IF AllRequiredIn(order) = "False" THEN <<OrderWarning>> ELSE <<>>) \o
    [i \in DOMAIN SelectSeq(Iter(order), LAMBDA f : ~StInCatalog(f)) |-> MappingWarning]

\* An exception no try of the script catches: the TypeError of line 71 on a
\* value that is no container, or of line 126 on an unhashable feature.
StScriptRaises(order) ==
    \/ AllRequiredIn(order) = "TypeError"
    \/ BuildRaises(order)

\* A run of the script from line 1 to its end, st.stop() or an exception;
\* submitted is the form button's value in this run.
StScript(submitted) ==
    /\ app = "streamlit"
    /\ IF StLoadRaises(sidecar)
       THEN /\ shown' = <<LoadFailed>>
            /\ pc' = "stopped"
            /\ FEATURE_ORDER' = None /\ inputs' = EmptyDict /\ calls' = <<>>
            /\ pred_var' = "-" /\ prob_var' = <<"-">>
       ELSE /\ FEATURE_ORDER' = sidecar.value
            /\ IF StScriptRaises(sidecar.value)
               THEN /\ shown' = <<"exception">>
                    /\ pc' = "raised"
                    /\ inputs' = EmptyDict /\ calls' = <<>>
                    /\ pred_var' = "-" /\ prob_var' = <<"-">>
               ELSE /\ pc' = "idle"
                    /\ inputs' = [f \in Range(Iter(sidecar.value)) |-> StInput(f)]
                    /\ IF ~submitted
                       THEN /\ shown' = StWarnings(sidecar.value)
                            /\ calls' = <<>>
                            /\ pred_var' = "-" /\ prob_var' = <<"-">>
                       ELSE IF validate_inputs(inputs') # <<>>
                       THEN /\ shown' = StWarnings(sidecar.value) \o <<"Validation errors">>
                            /\ calls' = <<>>
                            /\ pred_var' = "-" /\ prob_var' = <<"-">>
                       ELSE \E proba \in ProbaOutcomes, pred \in PredictOutcomes :
                            /\ calls' = << [op |-> "predict_proba", out |-> proba,
                                            X |-> [columns |-> Iter(sidecar.value),
                                                   row |-> [i \in DOMAIN Iter(sidecar.value) |->
                                                              inputs'[Iter(sidecar.value)[i]]]]],
                                           [op |-> "predict", out |-> pred,
                                            X |-> [columns |-> Iter(sidecar.value),
                                                   row |-> [i \in DOMAIN Iter(sidecar.value) |->
                                                              inputs'[Iter(sidecar.value)[i]]]]] >>
                            /\ IF PredictionFails(proba, pred)
                               THEN /\ shown' = StWarnings(sidecar.value) \o <<"Prediction failed">>
                                    /\ pred_var' = "-" /\ prob_var' = <<"-">>
                               ELSE /\ shown' = StWarnings(sidecar.value)
                                    /\ pred_var' = IF pred.value = 1 THEN "High stress (1)"
                                                   ELSE "Low stress (0)"
                                    /\ prob_var' = IF proba.raised THEN <<"N", "/", "A">>
                                                   ELSE FixedPoint3(proba.value)
    /\ UNCHANGED <<app, sidecar, widget_vars, string_vars, error_labels, result, form_frame>>

\* The page is opened or reloaded: the script runs with the button not pressed.
StRun == pc \in {"start", "idle", "stopped", "raised"} /\ StScript(FALSE)

\* The form's Predict button is pressed: the script runs with submitted = True.
StSubmit == pc = "idle" /\ StScript(TRUE)

\* The Streamlit process before the first run of its script.
StreamlitStart(file) ==
    /\ app = "streamlit" /\ pc = "start"
    /\ sidecar = file
    /\ FEATURE_ORDER = None
    /\ form_frame = <<>> /\ widget_vars = EmptyDict /\ string_vars = <<>>
    /\ error_labels = EmptyDict /\ inputs = EmptyDict
    /\ pred_var = "-" /\ prob_var = <<"-">>
    /\ shown = <<>> /\ calls = <<>> /\ result = NoResult

----------------------------------------------------------------------------
(* Sidecar files *)

Reversed(s) == [i \in DOMAIN s |-> s[Len(s) + 1 - i]]

Without(s, k) == [i \in 1..(Len(s) - 1) |-> IF i < k THEN s[i] ELSE s[i + 1]]

WithG3 == Reversed(REQUIRED_FEATURES) \o <<PyStr("G3")>>

WithAgeTwice == REQUIRED_FEATURES \o <<PyStr("age")>>

\* A JSON object whose keys are the given names.
ObjectOf(names) == Dict([i \in DOMAIN names |-> <<names[i], PyInt(i)>>])

\* Lists that lack one required name.
Incomplete == {Json(PyList(Without(REQUIRED_FEATURES, k))) : k \in DOMAIN REQUIRED_FEATURES}

\* Sidecar files the desktop form is exercised with: none, a permutation with a
\* feature the catalog lacks, and a list that names a feature twice.
FormSidecars == {Absent, Json(PyList(WithG3)), Json(PyList(WithAgeTwice))}

\* Sidecar files the start-up code is exercised with.
StartupSidecars ==
    FormSidecars \cup Incomplete \cup
    { Unreadable,
      Json(None), Json(PyInt(7)),
      Json(PyList(<<>>)),
      Json(PyList(REQUIRED_FEATURES)),
      Json(PyList(REQUIRED_FEATURES \o <<PyInt(7)>>)),
      Json(PyList(REQUIRED_FEATURES \o <<PyList(<<>>)>>)),
      Json(PyList(<<Dict(<<>>)>> \o REQUIRED_FEATURES)),
      Json(PyList(<<PyList(<<>>)>>)),
      Json(ObjectOf(RequiredNames)),
      Json(ObjectOf(SubSeq(RequiredNames, 1, 31))) }

\* Sidecar files the Streamlit script is exercised with.
StreamlitSidecars ==
    Incomplete \cup
    { Absent, Unreadable,
      Json(None), Json(PyInt(7)),
      Json(PyList(<<>>)),
      Json(PyList(REQUIRED_FEATURES)),
      Json(PyList(WithG3)),
      Json(ObjectOf(SubSeq(RequiredNames, 1, 31))) }

----------------------------------------------------------------------------
(* Specifications *)

\* The desktop form in use, and the Streamlit page.
Init == \/ \E file \in FormSidecars : app = "desktop" /\ Built(file)
        \/ \E file \in StreamlitSidecars : StreamlitStart(file)

Next ==
    \/ \E i \in EditedControls : \E key \in DropdownPicks(i) : EditDropdown(i, key)
    \/ \E i \in EditedControls : \E text \in TypedTexts : EditSpin(i, text)
    \/ predict_action
    \/ clear_form
    \/ StRun
    \/ StSubmit

Spec == Init /\ [][Next]_vars

\* The desktop application's start-up on any sidecar file.
InitStartup == \E file \in StartupSidecars : DesktopStart(file)

NextStartup == LoadFeatureOrder \/ BuildForm

SpecStartup == InitStartup /\ [][NextStartup]_vars

\* gather_and_map_inputs on forms of which up to MaxEdited controls hold any text.
InitEncode == \E file \in FormSidecars : app = "encode" /\ Built(file)

NextEncode ==
    \/ \E i \in EditedControls :
         \E text \in DropdownPicks(i) \cup OtherTexts :
            widget_vars[form_frame[i]].t = "dropdown" /\ SetRaw(i, text)
    \/ \E i \in EditedControls :
         \E text \in TypedTexts :
            widget_vars[form_frame[i]].t = "spin" /\ SetRaw(i, text)
    \/ Gather
    \/ Return

SpecEncode == InitEncode /\ [][NextEncode]_vars

\* gather_and_map_inputs on the default form with one control set to any display
\* string of the catalog (a dropdown) or any numeric text (a spinbox).
FieldTexts(w) == IF w.t = "dropdown" THEN AllKeys \cup OtherTexts ELSE NumericTexts

InitField ==
    \E file \in {Absent, Json(PyList(WithG3))} :
        /\ app = "field"
        /\ ~BuildRaises(LoadedFeatureOrder(file))
        /\ pc = "mainloop"
        /\ sidecar = file
        /\ FEATURE_ORDER = LoadedFeatureOrder(file)
        /\ form_frame = Created(FEATURE_ORDER)
        /\ widget_vars = BuiltWidgets(form_frame)
        /\ \E i \in DOMAIN form_frame :
             \E text \in FieldTexts(widget_vars[form_frame[i]]) :
                string_vars = [BuiltStrings(form_frame) EXCEPT ![i] = text]
        /\ error_labels = BuiltLabels(form_frame)
        /\ inputs = EmptyDict
        /\ pred_var = "-" /\ prob_var = <<"-">>
        /\ shown = <<>> /\ calls = <<>> /\ result = NoResult

NextField == Gather

SpecField == InitField /\ [][NextField]_vars

----------------------------------------------------------------------------
(* What the properties speak of, from the catalog and the texts alone *)

\* The text gather_and_map_inputs reads for a feature.
TextOf(f) == string_vars[widget_vars[f].var]

IsCategorical(f) == FIELD_INFO_MAP_get(f)[2] # None

\* d is a display string of the feature's choices.
IsKey(f, d) == \E i \in DOMAIN FIELD_INFO_MAP_get(f)[2].items :
                  FIELD_INFO_MAP_get(f)[2].items[i][1] = d

\* choices[d].
ChoiceOf(f, d) ==
    FIELD_INFO_MAP_get(f)[2].items[CHOOSE i \in DOMAIN FIELD_INFO_MAP_get(f)[2].items :
                                      FIELD_INFO_MAP_get(f)[2].items[i][1] = d][2]

\* x is a decimal number: blanks around an optional sign, digits, at most one point.
IsNumberText(x) == IsDecimal(Unsigned(Strip(x)))

\* x is an integer as int(x) reads it, or one written with a zero fraction ("12.0").
IsIntegerText(x) ==
    /\ IsNumberText(x)
    /\ IntPart(Unsigned(Strip(x))) # <<>>
    /\ \A i \in DOMAIN FracPart(Unsigned(Strip(x))) : FracPart(Unsigned(Strip(x)))[i] = "0"

\* The magnitude of the integer part of a number text, exact.
Magnitude(x) == DecimalValue(IntPart(Unsigned(Strip(x))))

\* The integer part of a number text as a Python int, exact.
ExactInteger(x) ==
    [t |-> "int",
     neg |-> HasSign(Strip(x)) /\ Head(Strip(x)) = "-" /\ Magnitude(x) # <<0, 0>>,
     hi |-> Magnitude(x)[1], lo |-> Magnitude(x)[2]]

\* The feature's text fails its categorical-membership or numeric-parse check.
FailsCheck(f) == IF IsCategorical(f) THEN ~IsKey(f, TextOf(f)) ELSE ~IsNumberText(TextOf(f))

Features == Range(Iter(FEATURE_ORDER))

Failing == {f \in Features : FailsCheck(f)}

\* The encoded value of the feature's text: the catalog's mapped value of a
\* categorical feature, the cast integer of a numeric one.
EncodedOf(f) == IF IsCategorical(f) THEN ChoiceOf(f, TextOf(f)) ELSE safe_cast_int(TextOf(f))

\* The message of a failing feature.
MessageOf(f) == IF IsCategorical(f) THEN "Choose a valid option" ELSE "Enter a number"

Order == Iter(FEATURE_ORDER)

\* Every feature but f passes its check.
OthersPass(f) == Failing \subseteq {f}

Returned == app \in {"encode", "field"} /\ pc = "returned"

\* The text a control was built with.
BuiltText(i) == DefaultText(Widget(form_frame[i], i))

NotAvailable == <<"N", "/", "A">>

StartupDone == app = "desktop" /\ pc \in {"build", "mainloop", "crashed"}

\* The sidecar parsed to a list that holds every required name.
IsFullList(file) ==
    /\ file.state = "json"
    /\ file.value.t = "list"
    /\ \A r \in Range(REQUIRED_FEATURES) : \E i \in DOMAIN file.value.items : file.value.items[i] = r

----------------------------------------------------------------------------
(* Properties *)

\* C1: desktop start-up never raises because of the sidecar, and FEATURE_ORDER is
\* the sidecar's list exactly when the sidecar parsed to a list holding every
\* required name, and REQUIRED_FEATURES in its declared order otherwise.
C1_SidecarNeverRaisesAndFallsBack ==
    StartupDone =>
        /\ pc # "crashed"
        /\ FEATURE_ORDER = IF IsFullList(sidecar) THEN sidecar.value
                           ELSE PyList(REQUIRED_FEATURES)

\* C9: the active schema never names a feature twice: FEATURE_ORDER has pairwise
\* distinct names, and each feature has exactly one control in the form.
C9_NoDuplicateFeature ==
    StartupDone =>
        /\ \A i, j \in DOMAIN Iter(FEATURE_ORDER) :
              Iter(FEATURE_ORDER)[i] = Iter(FEATURE_ORDER)[j] => i = j
        /\ \A f \in DOMAIN widget_vars :
              Cardinality({i \in DOMAIN form_frame : form_frame[i] = f}) = 1

\* The sidecar is missing, malformed (unreadable, or no list), or a list that
\* lacks a required name.
SidecarDegraded(file) == ~IsFullList(file)

\* C2: Streamlit, with a sidecar file that is missing, malformed or lacking a
\* required feature: the feature order of the form and of the model's row is the
\* required list in its declared order, the script neither stops nor raises, and
\* no error or warning is shown.
C2_StreamlitFallsBackSilently ==
    (app = "streamlit" /\ pc # "start" /\ SidecarDegraded(sidecar)) =>
        /\ pc = "idle"
        /\ FEATURE_ORDER = PyList(REQUIRED_FEATURES)
        /\ DOMAIN inputs = Range(REQUIRED_FEATURES)
        /\ \A i \in DOMAIN shown : shown[i] \notin {LoadFailed, OrderWarning, "exception"}

\* C3: gather_and_map_inputs returns (True, vector) when no field failed and
\* (False, errors) when at least one did; the keys of errors are exactly the
\* features whose text failed its membership or parse check, each with its
\* message, and a failure returns no vector.
C3_GatherAggregatesErrors ==
    Returned =>
        /\ result[1] = (Failing = {})
        /\ result[1] => DOMAIN result[2] = DOMAIN Order
        /\ ~result[1] => /\ DOMAIN result[2] = Failing
                         /\ \A f \in Failing : result[2][f] = MessageOf(f)

\* Two fields fail, a dropdown and a number, while the others pass.
C3_Witness ==
    /\ app = "encode" /\ pc = "returned"
    /\ ~result[1]
    /\ \E f, g \in Failing : IsCategorical(f) /\ ~IsCategorical(g)
    /\ Features \ Failing # {}

\* C4: a categorical feature whose text d is a key of its choices validates and
\* encodes to choices[d], the values 0 and the integer 2 of failures "2"
\* included; one whose text is no key, the empty string included, gets the error
\* "Choose a valid option", and no other feature gets an error.
C4_CategoricalEncoding ==
    (app = "field" /\ pc = "returned") =>
        \A i \in DOMAIN Order :
            (IsCategorical(Order[i]) /\ OthersPass(Order[i])) =>
                IF IsKey(Order[i], TextOf(Order[i]))
                THEN /\ result[1]
                     /\ result[2][i] = ChoiceOf(Order[i], TextOf(Order[i]))
                ELSE /\ ~result[1]
                     /\ DOMAIN result[2] = {Order[i]}
                     /\ result[2][Order[i]] = "Choose a valid option"

\* A choice other than the first one, encoded as 0, went through.
C4_Witness ==
    /\ app = "field" /\ pc = "returned" /\ result[1]
    /\ \E i \in DOMAIN Order :
          /\ IsCategorical(Order[i])
          /\ TextOf(Order[i]) # BuiltText(widget_vars[Order[i]].var)
          /\ result[2][i] = PyInt(0)

\* C5: a numeric feature's text that is parseable as an integer ("12.0" and
\* values outside the spinbox limits included) encodes to that integer, and a
\* text that is no number ("abc", "") gets the error "Enter a number".
C5_NumericParsing ==
    (app = "field" /\ pc = "returned") =>
        \A i \in DOMAIN Order :
            (~IsCategorical(Order[i]) /\ OthersPass(Order[i])) =>
                /\ IsIntegerText(TextOf(Order[i])) =>
                      result[1] /\ result[2][i] = ExactInteger(TextOf(Order[i]))
                /\ ~IsNumberText(TextOf(Order[i])) =>
                      /\ ~result[1]
                      /\ DOMAIN result[2] = {Order[i]}
                      /\ result[2][Order[i]] = "Enter a number"

\* C6: a successful vector has len(FEATURE_ORDER) entries, entry i the encoded
\* value of the text of feature FEATURE_ORDER[i], whatever the accepted order and
\* the order of the edits; the row given to the model is that vector under the
\* column names FEATURE_ORDER.
C6_VectorInSchemaOrder ==
    (app = "desktop" /\ calls # <<>>) =>
        /\ result[1]
        /\ DOMAIN result[2] = DOMAIN Order
        /\ \A i \in DOMAIN Order : result[2][i] = EncodedOf(Order[i])
        /\ \A k \in DOMAIN calls : calls[k].X = [columns |-> Order, row |-> result[2]]

\* The model got a row of the reversed order with G3, fields edited.
C6_Witness ==
    /\ app = "desktop" /\ calls # <<>>
    /\ FEATURE_ORDER = PyList(WithG3)
    /\ Cardinality(Edited(string_vars)) = MaxEdited

\* C7: predict and predict_proba are called only by a predict_action all of
\* whose fields validated, each with one row of len(FEATURE_ORDER) values; a
\* Predict press with an invalid field calls neither.
C7_ModelCalledOnlyWhenValid ==
    app = "desktop" =>
        /\ calls # <<>> =>
              /\ Failing = {}
              /\ result[1]
              /\ \A k \in DOMAIN calls : Len(calls[k].X.row) = Len(Order)
        /\ shown = <<"Input Error">> => calls = <<>> /\ ~result[1]

\* Predict was pressed with an invalid field.
C7_Witness ==
    /\ app = "desktop"
    /\ shown = <<"Input Error">>
    /\ Failing # {}
    /\ calls = <<>>

\* The failure message of an application.
FailureMessage == IF app = "desktop" THEN "Prediction error" ELSE "Prediction failed"

\* The class label an application displays.
ClassLabel(v) == IF app = "desktop"
                 THEN (IF v = 1 THEN "1 (High stress)" ELSE "0 (Low stress)")
                 ELSE (IF v = 1 THEN "High stress (1)" ELSE "Low stress (0)")

\* C8: when predict_proba raises and predict succeeds, no failure is reported,
\* the class label is displayed and the probability reads "N/A"; when predict
\* raises, the failure message is shown once and the application still takes
\* a submission.
C8_ProbabilityDegrades ==
    calls # <<>> =>
        /\ ~calls[2].out.raised =>
              /\ \A i \in DOMAIN shown : shown[i] # FailureMessage
              /\ pred_var = ClassLabel(calls[2].out.value)
              /\ calls[1].out.raised => prob_var = NotAvailable
        /\ calls[2].out.raised =>
              /\ Cardinality({i \in DOMAIN shown : shown[i] = FailureMessage}) = 1
              /\ pc \in {"mainloop", "idle"}

\* predict_proba raised, predict gave class 1.
C8_Witness ==
    /\ calls # <<>>
    /\ calls[1].out.raised
    /\ ~calls[2].out.raised /\ calls[2].out.value = 1
    /\ prob_var = NotAvailable

\* C10: right after predict_action a feature's error label is non-empty exactly
\* when the feature failed in that submission; right after clear_form every
\* error label is empty, every field of the form holds its default, and a
\* Predict press from there validates.
C10_LabelsFollowSubmission ==
    [][ /\ predict_action =>
              \A f \in DOMAIN error_labels' : (error_labels'[f] # "") <=> (f \in Failing')
        /\ clear_form =>
              /\ \A f \in DOMAIN error_labels' : error_labels'[f] = ""
              /\ \A i \in DOMAIN form_frame : string_vars'[i] = BuiltText(i)
              /\ Failing' = {}
      ]_vars

====
